---------------------------- MODULE Spec2Model ----------------------------
(***************************************************************************)
(* The cat plugin of lighthouse (pkg/plugins/cat/cat.go): the credential   *)
(* cache of realClowder (setKey, URL), the image retriever (readCat,       *)
(* catResult.Format) and the command handler (handle).                     *)
(*                                                                         *)
(* Strings that the code inspects character by character (the category,    *)
(* the key file, URLs) are sequences of one-character strings.  Time is    *)
(* counted in whole minutes.                                               *)
(***************************************************************************)
EXTENDS Integers, Sequences, FiniteSets, TLC

(***************************************************************************)
(* Bounds of the model.                                                    *)
(***************************************************************************)
\* The clock stops advancing at MaxTime minutes.
MaxTime == 3
\* Longest category built from CatAlphabet in the retriever specification.
MaxCatLen == 2

(***************************************************************************)
(* Program constants.                                                      *)
(***************************************************************************)
\* cat.go:102  c.update = time.Now().Add(1 * time.Minute), in minutes.
RefreshInterval == 1
\* cat.go:203  for i := 0; i < 3; i++
MaxAttempts == 3
\* cat.go:159  sc > 299 || sc < 200
StatusLow == 200
StatusHigh == 299

\* cat.go:41
BaseURL ==
    <<"h", "t", "t", "p", "s", ":", "/", "/", "a", "p", "i", ".", "t", "h",
      "e", "c", "a", "t", "a", "p", "i", ".", "c", "o", "m", "/", "v", "1",
      "/", "i", "m", "a", "g", "e", "s", "/", "s", "e", "a", "r", "c", "h",
      "?", "f", "o", "r", "m", "a", "t", "=", "j", "s", "o", "n", "&", "r",
      "e", "s", "u", "l", "t", "s", "_", "p", "e", "r", "_", "p", "a", "g",
      "e", "=", "1">>
\* cat.go:47
grumpyURL ==
    <<"h", "t", "t", "p", "s", ":", "/", "/", "u", "p", "l", "o", "a", "d",
      ".", "w", "i", "k", "i", "m", "e", "d", "i", "a", ".", "o", "r", "g",
      "/", "w", "i", "k", "i", "p", "e", "d", "i", "a", "/", "c", "o", "m",
      "m", "o", "n", "s", "/", "e", "/", "e", "e", "/", "G", "r", "u", "m",
      "p", "y", "_", "C", "a", "t", "_", "b", "y", "_", "G", "a", "g", "e",
      "_", "S", "k", "i", "d", "m", "o", "r", "e", ".", "j", "p", "g">>
\* cat.go:137, 140, 143
CategoryParam ==
    <<"&", "c", "a", "t", "e", "g", "o", "r", "y", "=">>
ApiKeyParam ==
    <<"&", "a", "p", "i", "_", "k", "e", "y", "=">>
MimeParam ==
    <<"&", "m", "i", "m", "e", "_", "t", "y", "p", "e", "s", "=", "g", "i",
      "f">>
\* cat.go:129  "![cat image](%s)"
EmbedOpen ==
    <<"!", "[", "c", "a", "t", " ", "i", "m", "a", "g", "e", "]", "(">>
EmbedClose ==
    <<")">>
\* cat.go:214, 216, 222
BadCategoryMsg ==
    <<"B", "a", "d", " ", "c", "a", "t", "e", "g", "o", "r", "y", ".", " ",
      "P", "l", "e", "a", "s", "e", " ", "s", "e", "e", " ", "h", "t", "t",
      "p", "s", ":", "/", "/", "a", "p", "i", ".", "t", "h", "e", "c", "a",
      "t", "a", "p", "i", ".", "c", "o", "m", "/", "a", "p", "i", "/", "c",
      "a", "t", "e", "g", "o", "r", "i", "e", "s", "/", "l", "i", "s", "t">>
DownMsg ==
    <<"h", "t", "t", "p", "s", ":", "/", "/", "t", "h", "e", "c", "a", "t",
      "a", "p", "i", ".", "c", "o", "m", " ", "a", "p", "p", "e", "a", "r",
      "s", " ", "t", "o", " ", "b", "e", " ", "d", "o", "w", "n">>
NoCatError ==
    "could not find a valid cat image"

(***************************************************************************)
(* Characters and strings.                                                 *)
(***************************************************************************)
\* The white space of strings.TrimSpace and of the regexp class \s that
\* occurs in the model's inputs.
WhiteSpace == {" ", "\n", "\t"}

IsSpace(c) == c \in WhiteSpace

\* Case folding of the (?i) flag, on the letters the model uses.
ToLower(c) ==
    CASE c = "N" -> "n"
      [] c = "O" -> "o"
      [] c = "G" -> "g"
      [] c = "R" -> "r"
      [] c = "U" -> "u"
      [] c = "M" -> "m"
      [] c = "P" -> "p"
      [] c = "Y" -> "y"
      [] OTHER -> c

FoldEq(s, t) ==
    /\ Len(s) = Len(t)
    /\ \A k \in 1..Len(s) : ToLower(s[k]) = ToLower(t[k])

RECURSIVE Flatten(_)
Flatten(ss) ==
    IF ss = <<>> THEN <<>> ELSE Head(ss) \o Flatten(Tail(ss))

\* All strings over alphabet A of length at most n.
RECURSIVE StringsUpTo(_, _)
StringsUpTo(A, n) ==
    IF n = 0 THEN {<<>>}
    ELSE LET shorter == StringsUpTo(A, n - 1)
         IN  shorter \cup {Append(s, c) : s \in shorter, c \in A}

\* strings.TrimSpace
TrimSpace(s) ==
    LET keep == {k \in 1..Len(s) : ~IsSpace(s[k])}
    IN  IF keep = {} THEN <<>>
        ELSE SubSeq(s, CHOOSE k \in keep : \A j \in keep : k <= j,
                       CHOOSE k \in keep : \A j \in keep : k >= j)

\* url.QueryEscape: unreserved characters stay, a space becomes "+", every
\* other byte becomes %XX.
Unreserved ==
    {"a", "b", "c", "d", "e", "f", "g", "h", "i", "j", "k", "l", "m", "n",
     "o", "p", "q", "r", "s", "t", "u", "v", "w", "x", "y", "z",
     "A", "B", "C", "D", "E", "F", "G", "H", "I", "J", "K", "L", "M", "N",
     "O", "P", "Q", "R", "S", "T", "U", "V", "W", "X", "Y", "Z",
     "0", "1", "2", "3", "4", "5", "6", "7", "8", "9", "-", "_", ".", "~"}

EscapeChar(c) ==
    CASE c \in Unreserved -> <<c>>
      [] c = " "  -> <<"+">>
      [] c = "\n" -> <<"%", "0", "A">>
      [] c = "\t" -> <<"%", "0", "9">>
      [] c = "&"  -> <<"%", "2", "6">>
      [] c = "="  -> <<"%", "3", "D">>
      [] c = "%"  -> <<"%", "2", "5">>
      [] c = "/"  -> <<"%", "2", "F">>
      [] c = ":"  -> <<"%", "3", "A">>
      [] c = "?"  -> <<"%", "3", "F">>
      [] OTHER    -> <<"%", "X", "X">>

QueryEscape(s) == Flatten([k \in 1..Len(s) |-> EscapeChar(s[k])])

\* The names of the parameters of the query of a URL: the text after "?"
\* is cut at every "&", and each piece at its first "=".
QueryParamNames(u) ==
    LET q    == {k \in 1..Len(u) : u[k] = "?"}
        from == IF q = {} THEN Len(u) + 1
                ELSE (CHOOSE k \in q : \A j \in q : k <= j) + 1
        cuts == {k \in from..Len(u) : u[k] = "&"} \cup {from - 1, Len(u) + 1}
        NextCut(a) == CHOOSE b \in cuts : b > a /\ \A c \in cuts : c > a => b <= c
        NameEnd(a) ==
            LET e  == NextCut(a)
                eq == {k \in (a + 1)..(e - 1) : u[k] = "="}
            IN  IF eq = {} THEN e - 1
                ELSE (CHOOSE k \in eq : \A j \in eq : k <= j) - 1
    IN  {SubSeq(u, a + 1, NameEnd(a)) : a \in cuts \ {Len(u) + 1}}

ApiKeyName == <<"a", "p", "i", "_", "k", "e", "y">>

HasApiKey(u) == ApiKeyName \in QueryParamNames(u)

\* Whether t occurs in s as a contiguous piece.
Contains(s, t) ==
    \E a \in 1..(Len(s) + 1) :
        /\ a + Len(t) - 1 <= Len(s)
        /\ SubSeq(s, a, a + Len(t) - 1) = t

(***************************************************************************)
(* The image retriever: grumpyKeywords, realClowder.URL, catResult.Format  *)
(* and realClowder.readCat as functions of their inputs.                   *)
(***************************************************************************)
Keywords ==
    {<<"n", "o">>, <<"g", "r", "u", "m", "p", "y">>}

\* The same pattern without the m flag: ^ and $ match at the ends of the
\* text only.
grumpyKeywordsWholeText(s) ==
    \E kw \in Keywords :
        /\ Len(kw) <= Len(s)
        /\ FoldEq(SubSeq(s, 1, Len(kw)), kw)
        /\ \A k \in (Len(kw) + 1)..Len(s) : IsSpace(s[k])

\* grumpyKeywords.MatchString(s) for the pattern (?mi)^(no|grumpy)\s*$ :
\* an unanchored search; with (?m), ^ matches at the start of the text and
\* after every "\n", and $ at the end of the text and before every "\n".
AtLineStart(s, b) == b = 1 \/ s[b - 1] = "\n"

AtLineEnd(s, e) == e = Len(s) + 1 \/ s[e] = "\n"

grumpyKeywords(s) ==
    \E b \in 1..(Len(s) + 1), kw \in Keywords :
        /\ AtLineStart(s, b)
        /\ b + Len(kw) - 1 <= Len(s)
        /\ FoldEq(SubSeq(s, b, b + Len(kw) - 1), kw)
        /\ \E e \in (b + Len(kw))..(Len(s) + 1) :
              /\ \A k \in (b + Len(kw))..(e - 1) : IsSpace(s[k])
              /\ AtLineEnd(s, e)

\* realClowder.URL, given the key it reads under the read lock.
URL(category, movieCat, k) ==
    BaseURL
      \o (IF category # <<>> THEN CategoryParam \o QueryEscape(category)
          ELSE <<>>)
      \o (IF k # <<>> THEN ApiKeyParam \o QueryEscape(k) ELSE <<>>)
      \o (IF movieCat THEN MimeParam ELSE <<>>)

\* Errors are records; Nil is the nil error.
Nil == [kind |-> "nil", sc |-> 0, arg |-> <<>>]

Err(kind, sc, arg) == [kind |-> kind, sc |-> sc, arg |-> arg]

\* url.Parse fails on a control character and on a "%" that does not start
\* a two-digit hexadecimal escape.
HexDigits ==
    {"0", "1", "2", "3", "4", "5", "6", "7", "8", "9",
     "a", "b", "c", "d", "e", "f", "A", "B", "C", "D", "E", "F"}

URLParseOK(s) ==
    \A k \in 1..Len(s) :
        /\ s[k] \notin {"\n", "\t"}
        /\ s[k] = "%" =>
              /\ k + 2 <= Len(s)
              /\ s[k + 1] \in HexDigits
              /\ s[k + 2] \in HexDigits

\* (*url.URL).String(): the path is written escaped.
URLString(s) ==
    Flatten([k \in 1..Len(s) |->
                IF s[k] = " " THEN <<"%", "2", "0">> ELSE <<s[k]>>])

\* catResult.Format
\* (variant: the URL is not parsed)
FormatSkipsParse(image) ==
    IF image = <<>>
    THEN [out |-> <<>>, err |-> Err("empty image url", 0, <<>>)]
    ELSE [out |-> EmbedOpen \o image \o EmbedClose, err |-> Nil]

Format(image) ==
    IF image = <<>>
    THEN [out |-> <<>>, err |-> Err("empty image url", 0, <<>>)]
    ELSE IF ~URLParseOK(image)
    THEN [out |-> <<>>, err |-> Err("invalid image url", 0, image)]
    ELSE [out |-> EmbedOpen \o URLString(image) \o EmbedClose, err |-> Nil]

\* the embed Format makes of a URL that parses and needs no escaping
Embed(image) == EmbedOpen \o image \o EmbedClose

\* What one call of readCat did: its two results, whether it issued the
\* HTTP GET, the images it handed to ImageTooBig, whether it reached Format.
Returned(out, err, get, sized, fmt) ==
    [out |-> out, err |-> err, get |-> get, sized |-> sized, fmt |-> fmt]

\* The part of readCat from the size check on (cat.go:169-180).
\* (variant: no size check)
ValidateSkipsSize(a, uri, get, size) ==
    IF a = <<>>
    THEN Returned(<<>>, Err("no image url in response from", 0, uri),
                  get, <<>>, FALSE)
    ELSE LET f == Format(a)
         IN  Returned(f.out, f.err, get, <<>>, TRUE)

\* (variant: the size check comes before the empty-URL check)
ValidateSizeFirst(a, uri, get, size) ==
    IF size = "error"
    THEN Returned(<<>>, Err("could not validate image size", 0, a),
                  get, <<a>>, FALSE)
    ELSE IF size = "toobig"
    THEN Returned(<<>>, Err("longcat is too long", 0, a), get, <<a>>, FALSE)
    ELSE IF a = <<>>
    THEN Returned(<<>>, Err("no image url in response from", 0, uri),
                  get, <<a>>, FALSE)
    ELSE LET f == Format(a)
         IN  Returned(f.out, f.err, get, <<a>>, TRUE)

\* (variant: an oversized image is accepted)
ValidateIgnoresTooBig(a, uri, get, size) ==
    IF a = <<>>
    THEN Returned(<<>>, Err("no image url in response from", 0, uri),
                  get, <<>>, FALSE)
    ELSE IF size = "error"
    THEN Returned(<<>>, Err("could not validate image size", 0, a),
                  get, <<a>>, FALSE)
    ELSE LET f == Format(a)
         IN  Returned(f.out, f.err, get, <<a>>, TRUE)

Validate(a, uri, get, size) ==
    IF a = <<>>
    THEN Returned(<<>>, Err("no image url in response from", 0, uri),
                  get, <<>>, FALSE)
    ELSE IF size = "error"
    THEN Returned(<<>>, Err("could not validate image size", 0, a),
                  get, <<a>>, FALSE)
    ELSE IF size = "toobig"
    THEN Returned(<<>>, Err("longcat is too long", 0, a), get, <<a>>, FALSE)
    ELSE LET f == Format(a)
         IN  Returned(f.out, f.err, get, <<a>>, TRUE)

\* realClowder.readCat, given the URL it built, the answer of the HTTP GET
\* (if it issues one) and the answer of scmprovider.ImageTooBig (if asked).
readCat(category, uri, resp, size) ==
    IF grumpyKeywords(category)
    THEN Validate(grumpyURL, uri, FALSE, size)
    ELSE IF resp.err
    THEN Returned(<<>>, Err("could not read cat from", 0, uri),
                  TRUE, <<>>, FALSE)
    ELSE IF resp.sc > StatusHigh \/ resp.sc < StatusLow
    THEN Returned(<<>>, Err("failing response from", resp.sc, uri),
                  TRUE, <<>>, FALSE)
    ELSE IF ~resp.json
    THEN Returned(<<>>, Err("json decode", 0, <<>>), TRUE, <<>>, FALSE)
    ELSE IF Len(resp.cats) < 1
    THEN Returned(<<>>, Err("no cats in response from", 0, uri),
                  TRUE, <<>>, FALSE)
    ELSE Validate(resp.cats[1], uri, TRUE, size)

(***************************************************************************)
(* Inputs.                                                                 *)
(***************************************************************************)
\* Concurrent invocations of handle.
Procs == {1, 2}

\* The configured key path: none, or the path of the key file.
KeyPaths == {"", "/etc/cat/api-key"}

\* The key file: unreadable, or readable with this content.
Unreadable == [ok |-> FALSE, data |-> <<>>]

FileStates ==
    {Unreadable,
     [ok |-> TRUE, data |-> <<" ", "k", "1", "\n">>],
     [ok |-> TRUE, data |-> <<"k", "2">>]}

\* Answers of the HTTP GET.
Response(err, sc, json, cats) ==
    [err |-> err, sc |-> sc, json |-> json, cats |-> cats]

GoodImage == <<"/", "c", "1">>

Images ==
    {<<>>, GoodImage, <<"/", "c", " ", "1">>, <<"/", "%", "z">>}

AllResponses ==
    {Response(TRUE, 0, FALSE, <<>>)}
      \cup {Response(FALSE, sc, FALSE, <<>>) : sc \in {199, 200, 300, 500}}
      \cup {Response(FALSE, 200, TRUE, <<>>)}
      \cup {Response(FALSE, sc, TRUE, <<img>>) :
                sc \in {200, 299}, img \in Images}

\* Answers of scmprovider.ImageTooBig: (false, nil), (true, nil), (_, err).
SizeOutcomes == {"ok", "toobig", "error"}

\* Answers of CreateComment: nil or an error.
PostError == "create comment failed"

PostOutcomes == {"nil", PostError}

\* Categories of the concurrent specification.
Categories ==
    {<<>>, <<"c", "&">>}

\* Answers of the services in the concurrent specification.
Responses ==
    {Response(TRUE, 0, FALSE, <<>>), Response(FALSE, 200, TRUE, <<GoodImage>>)}

Sizes == {"ok"}

\* Categories of the retriever specification.
CatAlphabet == {"n", "o", "N", " ", "\n", "x"}

AllCategories ==
    StringsUpTo(CatAlphabet, MaxCatLen)
      \cup {<<"g", "r", "u", "m", "p", "y">>,
            <<"G", "r", "u", "m", "p", "y", " ", "\n">>,
            <<" ", "g", "r", "u", "m", "p", "y">>,
            <<"g", "r", "u", "m", "p", "y", "x">>,
            <<"n", "o", " ", "\t">>,
            <<" ", "n", "o">>,
            <<"x", "\n", "n", "o">>,
            <<"n", "o", "\n", "x">>,
            <<"n", "o", " ", "x">>,
            <<"&", "a", "p", "i", "_", "k", "e", "y", "=", "x">>}

(***************************************************************************)
(* State.                                                                  *)
(***************************************************************************)
VARIABLES
    now,        \* the wall clock (time.Now()), in minutes
    file,       \* the key file on disk
    update,     \* realClowder.update: the refresh deadline
    key,        \* realClowder.key
    lock,       \* realClowder.lock: its writer (0: none) and its readers
    reads,      \* the deadline in force at each os.ReadFile, oldest first
    pc,         \* where each invocation of handle stands
    category,   \* handle's category argument
    movieCat,   \* handle's movieCat argument
    keyPath,    \* the keyPath the setKey closure passes
    i,          \* handle's loop counter
    uri,        \* readCat's uri
    out,        \* what the last readCat call of the invocation returned
    got,        \* what the services answered to that call
    taken,      \* the exit path the invocation's setKey call took
    calls,      \* the outcome of each readCat call of the invocation
    posted,     \* the CreateComment calls of the invocation
    ret         \* what handle returned

vars ==
    <<now, file, update, key, lock, reads, pc, category, movieCat, keyPath,
      i, uri, out, got, taken, calls, posted, ret>>

cache == <<update, key, lock, reads>>

env == <<now, file>>

args == <<category, movieCat, keyPath>>

NoOut == Returned(<<>>, Nil, FALSE, <<>>, FALSE)

\* What the services answered to one readCat call: the answer of the HTTP
\* GET and of ImageTooBig, for those of them the call asked.
NoResponse == Response(FALSE, 0, FALSE, <<>>)

Answers(r, resp, size) ==
    [resp |-> IF r.get THEN resp ELSE NoResponse,
     size |-> IF r.sized # <<>> THEN size ELSE "none"]

NoAnswers == [resp |-> NoResponse, size |-> "none"]

\* plugins.FormatResponseRaw(e.Body, e.Link, quoted author, msg) for the
\* comment event of invocation p: the reply quotes the event and ends with
\* msg.
FormatResponseRaw(p, msg) ==
    [quotes |-> p, text |-> msg]

\* One CreateComment call: the issue it went to, its body, its answer.
Comment(p, msg, answer) ==
    [number |-> p, body |-> FormatResponseRaw(p, msg), answer |-> answer]

Init ==
    /\ now = 1
    /\ file \in FileStates
    /\ update = 0
    /\ key = <<>>
    /\ lock = [w |-> 0, r |-> {}]
    /\ reads = <<>>
    /\ pc = [p \in Procs |-> "idle"]
    /\ category = [p \in Procs |-> <<>>]
    /\ movieCat = [p \in Procs |-> FALSE]
    /\ keyPath = [p \in Procs |-> ""]
    /\ i = [p \in Procs |-> 0]
    /\ uri = [p \in Procs |-> <<>>]
    /\ out = [p \in Procs |-> NoOut]
    /\ got = [p \in Procs |-> NoAnswers]
    /\ taken = [p \in Procs |-> "none"]
    /\ calls = [p \in Procs |-> <<>>]
    /\ posted = [p \in Procs |-> <<>>]
    /\ ret = [p \in Procs |-> "none"]

(***************************************************************************)
(* The environment.                                                        *)
(***************************************************************************)
Tick ==
    /\ now < MaxTime
    /\ now' = now + 1
    /\ UNCHANGED <<file, cache, pc, args, i, uri, out, got, taken, calls,
                   posted, ret>>

ChangeFile ==
    /\ file' \in FileStates \ {file}
    /\ UNCHANGED <<now, cache, pc, args, i, uri, out, got, taken, calls,
                   posted, ret>>

(***************************************************************************)
(* handleGenericComment and handle (cat.go:183-223).                       *)
(***************************************************************************)
\* A /meow or /meowvie comment arrives: handle is entered and calls setKey.
Invoke(p, cats, movies, paths) ==
    /\ pc[p] = "idle"
    /\ \E c \in cats, m \in movies, k \in paths :
          /\ category' = [category EXCEPT ![p] = c]
          /\ movieCat' = [movieCat EXCEPT ![p] = m]
          /\ keyPath' = [keyPath EXCEPT ![p] = k]
    /\ pc' = [pc EXCEPT ![p] = "setKeyLock"]
    /\ i' = [i EXCEPT ![p] = 0]
    /\ calls' = [calls EXCEPT ![p] = <<>>]
    /\ posted' = [posted EXCEPT ![p] = <<>>]
    /\ ret' = [ret EXCEPT ![p] = "none"]
    /\ UNCHANGED <<env, cache, uri, out, got, taken>>

(***************************************************************************)
(* realClowder.setKey (cat.go:96-114).                                     *)
(***************************************************************************)
\* c.lock.Lock()
SetKeyLock(p) ==
    /\ pc[p] = "setKeyLock"
    /\ lock.w = 0 /\ lock.r = {}
    /\ lock' = [lock EXCEPT !.w = p]
    /\ pc' = [pc EXCEPT ![p] = "setKeyCheck"]
    /\ UNCHANGED <<env, update, key, reads, args, i, uri, out, got, taken, calls,
                   posted, ret>>

\* !time.Now().After(c.update)
\* (variants: no check at all; time.Now().Before(c.update))
WindowCheckSkipped(t, deadline) == FALSE

WindowOpenOffByOne(t, deadline) == t < deadline

WindowOpen(t, deadline) == ~(t > deadline)

\* if !time.Now().After(c.update) { return }
SetKeyCheck(p) ==
    /\ pc[p] = "setKeyCheck"
    /\ IF WindowOpen(now, update)
       THEN /\ taken' = [taken EXCEPT ![p] = "noop"]
            /\ pc' = [pc EXCEPT ![p] = "setKeyUnlock"]
       ELSE /\ taken' = taken
            /\ pc' = [pc EXCEPT ![p] = "setKeyUpdate"]
    /\ UNCHANGED <<env, cache, args, i, uri, out, got, calls, posted, ret>>

\* c.update = time.Now().Add(1 * time.Minute); if keyPath == "" { ... }
\* (variant: an empty key path leaves the deadline as it was)
SetKeyUpdateKeepsWindow(p) ==
    /\ pc[p] = "setKeyUpdate"
    /\ update' = IF keyPath[p] = "" THEN update ELSE now + RefreshInterval
    /\ IF keyPath[p] = ""
       THEN /\ key' = <<>>
            /\ taken' = [taken EXCEPT ![p] = "cleared"]
            /\ pc' = [pc EXCEPT ![p] = "setKeyUnlock"]
       ELSE /\ key' = key
            /\ taken' = taken
            /\ pc' = [pc EXCEPT ![p] = "setKeyRead"]
    /\ UNCHANGED <<env, lock, reads, args, i, uri, out, got, calls, posted,
                   ret>>

SetKeyUpdate(p) ==
    /\ pc[p] = "setKeyUpdate"
    /\ update' = now + RefreshInterval
    /\ IF keyPath[p] = ""
       THEN /\ key' = <<>>
            /\ taken' = [taken EXCEPT ![p] = "cleared"]
            /\ pc' = [pc EXCEPT ![p] = "setKeyUnlock"]
       ELSE /\ key' = key
            /\ taken' = taken
            /\ pc' = [pc EXCEPT ![p] = "setKeyRead"]
    /\ UNCHANGED <<env, lock, reads, args, i, uri, out, got, calls, posted,
                   ret>>

\* The key after os.ReadFile answered f, old being the key before.
\* (variant: a failed read leaves the key as it was)
KeyReadKeepsOld(f, old) == IF f.ok THEN TrimSpace(f.data) ELSE old

KeyRead(f, old) == IF f.ok THEN TrimSpace(f.data) ELSE <<>>

\* b, err := os.ReadFile(keyPath) and what follows it
SetKeyRead(p) ==
    /\ pc[p] = "setKeyRead"
    /\ reads' = Append(reads, update)
    /\ key' = KeyRead(file, key)
    /\ taken' = [taken EXCEPT ![p] = IF file.ok THEN "read" ELSE "readfail"]
    /\ pc' = [pc EXCEPT ![p] = "setKeyUnlock"]
    /\ UNCHANGED <<env, update, lock, args, i, uri, out, got, calls, posted,
                   ret>>

\* defer c.lock.Unlock(): setKey returns into handle's loop
\* (variant: the early return inside the window keeps the lock)
SetKeyUnlockLeaksOnNoop(p) ==
    /\ pc[p] = "setKeyUnlock"
    /\ lock' = IF taken[p] = "noop" THEN lock ELSE [lock EXCEPT !.w = 0]
    /\ pc' = [pc EXCEPT ![p] = "readCat"]
    /\ taken' = [taken EXCEPT ![p] = "none"]
    /\ keyPath' = [keyPath EXCEPT ![p] = ""]
    /\ UNCHANGED <<env, update, key, reads, category, movieCat, i, uri, out,
                   got, calls, posted, ret>>

SetKeyUnlock(p) ==
    /\ pc[p] = "setKeyUnlock"
    /\ lock' = [lock EXCEPT !.w = 0]
    /\ pc' = [pc EXCEPT ![p] = "readCat"]
    /\ taken' = [taken EXCEPT ![p] = "none"]
    /\ keyPath' = [keyPath EXCEPT ![p] = ""]
    /\ UNCHANGED <<env, update, key, reads, category, movieCat, i, uri, out, got,
                   calls, posted, ret>>

(***************************************************************************)
(* realClowder.readCat (cat.go:148-181), called from handle's loop.        *)
(***************************************************************************)
\* handle's loop condition, i < 3
\* (variant: i <= 3)
LoopContinuesOnceMore(n) == n <= MaxAttempts

LoopContinues(n) == n < MaxAttempts

\* the loop is entered, and uri := c.URL(category, movieCat) takes
\* c.lock.RLock()
\* (variant: RLock does not wait for the writer)
URLRLockIgnoresWriter(p) ==
    /\ pc[p] = "readCat"
    /\ LoopContinues(i[p])
    /\ lock' = [lock EXCEPT !.r = @ \cup {p}]
    /\ pc' = [pc EXCEPT ![p] = "URL"]
    /\ UNCHANGED <<env, update, key, reads, args, i, uri, out, got, taken,
                   calls, posted, ret>>

URLRLock(p) ==
    /\ pc[p] = "readCat"
    /\ LoopContinues(i[p])
    /\ lock.w = 0
    /\ lock' = [lock EXCEPT !.r = @ \cup {p}]
    /\ pc' = [pc EXCEPT ![p] = "URL"]
    /\ UNCHANGED <<env, update, key, reads, args, i, uri, out, got, taken,
                   calls, posted, ret>>

\* the body of URL and its deferred c.lock.RUnlock()
URLBuild(p) ==
    /\ pc[p] = "URL"
    /\ uri' = [uri EXCEPT ![p] = URL(category[p], movieCat[p], key)]
    /\ lock' = [lock EXCEPT !.r = @ \ {p}]
    /\ pc' = [pc EXCEPT ![p] = "fetch"]
    /\ UNCHANGED <<env, update, key, reads, args, i, out, got, taken, calls,
                   posted, ret>>

\* the rest of readCat, with the answers of the services it calls
Fetch(p, responses, sizes) ==
    /\ pc[p] = "fetch"
    /\ \E resp \in responses, size \in sizes :
          LET r == readCat(category[p], uri[p], resp, size)
          IN  /\ out' = [out EXCEPT ![p] = r]
              /\ got' = [got EXCEPT ![p] = Answers(r, resp, size)]
              /\ calls' = [calls EXCEPT
                             ![p] = Append(@, IF r.err = Nil THEN "ok"
                                              ELSE "err")]
    /\ uri' = [uri EXCEPT ![p] = <<>>]
    /\ pc' = [pc EXCEPT ![p] = "result"]
    /\ UNCHANGED <<env, cache, args, i, taken, posted, ret>>

(***************************************************************************)
(* handle's loop and what follows it (cat.go:203-223).                     *)
(***************************************************************************)
\* if err != nil { log; continue }
\* (variant: the key is refreshed again before every further attempt)
RetryRefreshes(p) ==
    /\ pc[p] = "result"
    /\ out[p].err # Nil
    /\ i' = [i EXCEPT ![p] = @ + 1]
    /\ out' = [out EXCEPT ![p] = NoOut]
    /\ got' = [got EXCEPT ![p] = NoAnswers]
    /\ pc' = [pc EXCEPT
                ![p] = IF LoopContinues(i[p] + 1) THEN "setKeyLock"
                       ELSE "fallback"]
    /\ UNCHANGED <<env, cache, args, uri, taken, calls, posted, ret>>

\* (variant: after the third failure handle returns without a post)
RetryGivesUp(p) ==
    /\ pc[p] = "result"
    /\ out[p].err # Nil
    /\ i' = [i EXCEPT ![p] = @ + 1]
    /\ out' = [out EXCEPT ![p] = NoOut]
    /\ got' = [got EXCEPT ![p] = NoAnswers]
    /\ pc' = [pc EXCEPT
                ![p] = IF LoopContinues(i[p] + 1) THEN "readCat" ELSE "done"]
    /\ UNCHANGED <<env, cache, args, uri, taken, calls, posted, ret>>

Retry(p) ==
    /\ pc[p] = "result"
    /\ out[p].err # Nil
    /\ i' = [i EXCEPT ![p] = @ + 1]
    /\ out' = [out EXCEPT ![p] = NoOut]
    /\ got' = [got EXCEPT ![p] = NoAnswers]
    /\ pc' = [pc EXCEPT
                ![p] = IF LoopContinues(i[p] + 1) THEN "readCat" ELSE "fallback"]
    /\ UNCHANGED <<env, cache, args, uri, taken, calls, posted, ret>>

\* return spc.CreateComment(..., FormatResponseRaw(..., resp))
\* (variant: the post's error is dropped and nil returned)
PostSuccessSwallowsError(p) ==
    /\ pc[p] = "result"
    /\ out[p].err = Nil
    /\ \E answer \in PostOutcomes :
          posted' = [posted EXCEPT
                       ![p] = Append(@, Comment(p, out[p].out, answer))]
    /\ ret' = [ret EXCEPT ![p] = "nil"]
    /\ pc' = [pc EXCEPT ![p] = "done"]
    /\ UNCHANGED <<env, cache, args, i, uri, out, got, taken, calls>>

\* (variant: a failed post falls through to the fallback post)
PostSuccessFallsThrough(p) ==
    /\ pc[p] = "result"
    /\ out[p].err = Nil
    /\ \E answer \in PostOutcomes :
          /\ posted' = [posted EXCEPT
                          ![p] = Append(@, Comment(p, out[p].out, answer))]
          /\ ret' = [ret EXCEPT ![p] = answer]
          /\ pc' = [pc EXCEPT
                      ![p] = IF answer = "nil" THEN "done" ELSE "fallback"]
    /\ UNCHANGED <<env, cache, args, i, uri, out, got, taken, calls>>

\* (variant: a failed post counts as a failed attempt)
PostSuccessRetries(p) ==
    /\ pc[p] = "result"
    /\ out[p].err = Nil
    /\ \E answer \in PostOutcomes :
          /\ posted' = [posted EXCEPT
                          ![p] = Append(@, Comment(p, out[p].out, answer))]
          /\ ret' = [ret EXCEPT ![p] = answer]
          /\ i' = IF answer = "nil" THEN i ELSE [i EXCEPT ![p] = @ + 1]
          /\ pc' = [pc EXCEPT
                      ![p] = IF answer = "nil" THEN "done"
                             ELSE IF LoopContinues(i[p] + 1) THEN "readCat"
                             ELSE "fallback"]
    /\ UNCHANGED <<env, cache, args, uri, out, got, taken, calls>>

PostSuccess(p) ==
    /\ pc[p] = "result"
    /\ out[p].err = Nil
    /\ \E answer \in PostOutcomes :
          /\ posted' = [posted EXCEPT
                          ![p] = Append(@, Comment(p, out[p].out, answer))]
          /\ ret' = [ret EXCEPT ![p] = answer]
    /\ pc' = [pc EXCEPT ![p] = "done"]
    /\ UNCHANGED <<env, cache, args, i, uri, out, got, taken, calls>>

\* the message handle posts when every attempt failed
\* (variant: the two messages exchanged)
FallbackMsgSwapped(c) == IF c # <<>> THEN DownMsg ELSE BadCategoryMsg

FallbackMsg(c) == IF c # <<>> THEN BadCategoryMsg ELSE DownMsg

\* the fallback comment, and return errors.New("could not find ...")
\* (variant: a failed fallback post returns the post's error)
PostFallbackReturnsPostError(p) ==
    /\ pc[p] = "fallback"
    /\ \E answer \in PostOutcomes :
          /\ posted' = [posted EXCEPT
                          ![p] = Append(@, Comment(p, FallbackMsg(category[p]),
                                                  answer))]
          /\ ret' = [ret EXCEPT
                       ![p] = IF answer = "nil" THEN NoCatError ELSE answer]
    /\ pc' = [pc EXCEPT ![p] = "done"]
    /\ UNCHANGED <<env, cache, args, i, uri, out, got, taken, calls>>

\* (variant: giving up also clears the refresh deadline)
PostFallbackResetsDeadline(p) ==
    /\ pc[p] = "fallback"
    /\ \E answer \in PostOutcomes :
          posted' = [posted EXCEPT
                       ![p] = Append(@, Comment(p, FallbackMsg(category[p]),
                                               answer))]
    /\ ret' = [ret EXCEPT ![p] = NoCatError]
    /\ update' = 0
    /\ pc' = [pc EXCEPT ![p] = "done"]
    /\ UNCHANGED <<env, key, lock, reads, args, i, uri, out, got, taken,
                   calls>>

PostFallback(p) ==
    /\ pc[p] = "fallback"
    /\ \E answer \in PostOutcomes :
          posted' = [posted EXCEPT
                       ![p] = Append(@, Comment(p, FallbackMsg(category[p]),
                                               answer))]
    /\ ret' = [ret EXCEPT ![p] = NoCatError]
    /\ pc' = [pc EXCEPT ![p] = "done"]
    /\ UNCHANGED <<env, cache, args, i, uri, out, got, taken, calls>>

\* handle has returned; the invocation's locals are gone
Finish(p) ==
    /\ pc[p] = "done"
    /\ pc' = [pc EXCEPT ![p] = "idle"]
    /\ category' = [category EXCEPT ![p] = <<>>]
    /\ movieCat' = [movieCat EXCEPT ![p] = FALSE]
    /\ i' = [i EXCEPT ![p] = 0]
    /\ out' = [out EXCEPT ![p] = NoOut]
    /\ got' = [got EXCEPT ![p] = NoAnswers]
    /\ calls' = [calls EXCEPT ![p] = <<>>]
    /\ posted' = [posted EXCEPT ![p] = <<>>]
    /\ ret' = [ret EXCEPT ![p] = "none"]
    /\ UNCHANGED <<env, cache, keyPath, uri, taken>>

(***************************************************************************)
(* Specifications.                                                         *)
(***************************************************************************)
\* Concurrent invocations, a running clock and a changing key file.
Next ==
    \/ Tick
    \/ ChangeFile
    \/ \E p \in Procs :
          \/ Invoke(p, Categories, {FALSE}, KeyPaths)
          \/ SetKeyLock(p)
          \/ SetKeyCheck(p)
          \/ SetKeyUpdate(p)
          \/ SetKeyRead(p)
          \/ SetKeyUnlock(p)
          \/ URLRLock(p)
          \/ URLBuild(p)
          \/ Fetch(p, Responses, Sizes)
          \/ Retry(p)
          \/ PostSuccess(p)
          \/ PostFallback(p)
          \/ Finish(p)

Spec == Init /\ [][Next]_vars

\* One invocation at a time, every category and every answer of the
\* services.
NextCat ==
    \/ Invoke(1, AllCategories, BOOLEAN, KeyPaths)
    \/ SetKeyLock(1)
    \/ SetKeyCheck(1)
    \/ SetKeyUpdate(1)
    \/ SetKeyRead(1)
    \/ SetKeyUnlock(1)
    \/ URLRLock(1)
    \/ URLBuild(1)
    \/ Fetch(1, AllResponses, SizeOutcomes)
    \/ Retry(1)
    \/ PostSuccess(1)
    \/ PostFallback(1)
    \/ Finish(1)

SpecCat == Init /\ [][NextCat]_vars

\* The steps of invocation p once handle has been entered.
Step(p) ==
    \/ SetKeyLock(p)
    \/ SetKeyCheck(p)
    \/ SetKeyUpdate(p)
    \/ SetKeyRead(p)
    \/ SetKeyUnlock(p)
    \/ URLRLock(p)
    \/ URLBuild(p)
    \/ Fetch(p, Responses, Sizes)
    \/ Retry(p)
    \/ PostSuccess(p)
    \/ PostFallback(p)
    \/ Finish(p)

\* The goroutine of an invocation keeps being scheduled and the services it
\* calls answer; a goroutine that waits in Lock or RLock gets the lock once
\* it has been free often enough (sync.RWMutex hands the lock to waiters).
Fairness ==
    \A p \in Procs :
        /\ WF_vars(Step(p))
        /\ SF_vars(SetKeyLock(p))
        /\ SF_vars(URLRLock(p))

\* Concurrent invocations under fair scheduling: a running clock, the key
\* file as it is at the start, comments without a category.
NextLive ==
    \/ Tick
    \/ \E p \in Procs :
          \/ Invoke(p, {<<>>}, {FALSE}, KeyPaths)
          \/ Step(p)

SpecLive == Init /\ [][NextLive]_vars /\ Fairness

(***************************************************************************)
(* Properties of handle.                                                   *)
(***************************************************************************)
\* The first successful readCat call of invocation p was its k-th.
FirstSuccessAt(p, k) ==
    /\ Len(calls[p]) = k
    /\ calls[p][k] = "ok"
    /\ \A j \in 1..(k - 1) : calls[p][j] = "err"

AllFailed(p) == calls[p] = <<"err", "err", "err">>

FallbackMsgs == {BadCategoryMsg, DownMsg}

\* handle of invocation p has returned after a retriever success.
ReturnedAfterSuccess(p) ==
    /\ pc[p] = "done"
    /\ \E k \in 1..3 : FirstSuccessAt(p, k)

\* C1 as stated: when the retriever first succeeds at attempt k in 1..3,
\* handle posts exactly one comment, the comment carries the retriever's
\* result and no fallback message, and handle returns no error.
C1_ReturnsNoError ==
    \A p \in Procs :
        ReturnedAfterSuccess(p) =>
            /\ Len(posted[p]) = 1
            /\ posted[p][1].body.text = out[p].out
            /\ posted[p][1].body.text \notin FallbackMsgs
            /\ ret[p] = "nil"

\* C1 as amended: when the retriever first succeeds at attempt k in 1..3,
\* handle posts exactly one comment, the comment carries the retriever's
\* result and no fallback message, and handle returns what that one
\* CreateComment call returned: no error when the post succeeded, the
\* post's error otherwise.
C1_ReturnsPostResult ==
    \A p \in Procs :
        ReturnedAfterSuccess(p) =>
            /\ Len(posted[p]) = 1
            /\ posted[p][1].body.text = out[p].out
            /\ posted[p][1].body.text \notin FallbackMsgs
            /\ posted[p][1].answer = "nil" => ret[p] = "nil"
            /\ posted[p][1].answer # "nil" => ret[p] = posted[p][1].answer

C1_Witness ==
    \E p \in Procs :
        /\ pc[p] = "done"
        /\ calls[p] = <<"err", "err", "ok">>
        /\ Len(posted[p]) = 1
        /\ ret[p] = "nil"

\* C2: when all 3 attempts fail, handle calls CreateComment exactly once,
\* with a fallback message, and returns the error "could not find a valid
\* cat image" whether that call succeeded or failed.
C2_ExhaustedRetries ==
    \A p \in Procs :
        (pc[p] = "done" /\ AllFailed(p)) =>
            /\ Len(posted[p]) = 1
            /\ posted[p][1].body.text \in FallbackMsgs
            /\ ret[p] = "could not find a valid cat image"

C2_Witness ==
    \E p \in Procs :
        /\ pc[p] = "done"
        /\ AllFailed(p)
        /\ posted[p][1].answer # "nil"
        /\ ret[p] = NoCatError

\* C3: an invocation calls readCat at least once and at most 3 times, never
\* again after a success: when handle returns, the number of calls is the
\* number of the first successful attempt, or 3 when none succeeded.
C3_BoundedRetries ==
    \A p \in Procs :
        /\ Len(calls[p]) <= 3
        /\ \A j \in 1..(Len(calls[p]) - 1) : calls[p][j] = "err"
        /\ pc[p] = "fallback" => AllFailed(p)
        /\ pc[p] = "done" =>
              \/ \E k \in 1..3 : FirstSuccessAt(p, k)
              \/ AllFailed(p)

C3_Witness ==
    \E p \in Procs : pc[p] = "done" /\ calls[p] = <<"err", "ok">>

\* C4: CreateComment is called exactly once before handle returns, whatever
\* the retriever and CreateComment answer: no call before the result is
\* known, one call at the return, never a second one.
C4_ExactlyOncePosting ==
    \A p \in Procs :
        Len(posted[p]) = IF pc[p] = "done" THEN 1 ELSE 0

C4_Witness ==
    \E p \in Procs :
        /\ pc[p] = "done"
        /\ \E k \in 1..3 : FirstSuccessAt(p, k)
        /\ posted[p][1].answer # "nil"
        /\ Len(posted[p]) = 1

\* C5: after 3 failed attempts the posted message is the category hint if
\* and only if the category is non-empty, the "appears to be down" message
\* if and only if it is empty, and the two messages differ.
C5_FallbackMessage ==
    /\ BadCategoryMsg # DownMsg
    /\ \A p \in Procs :
          (pc[p] = "done" /\ AllFailed(p)) =>
              /\ posted[p][1].body.text = BadCategoryMsg <=> category[p] # <<>>
              /\ posted[p][1].body.text = DownMsg <=> category[p] = <<>>

C5_Witness ==
    \E p \in Procs :
        /\ pc[p] = "done"
        /\ AllFailed(p)
        /\ category[p] # <<>>
        /\ posted[p][1].body.text = BadCategoryMsg

(***************************************************************************)
(* Properties of the credential cache.                                     *)
(***************************************************************************)
\* The reads made under the deadline d.
ReadsUnder(d) == {k \in 1..Len(reads) : reads[k] = d}

\* C6: there is never more than one read of the key file per refresh
\* window, however the setKey calls interleave: the deadlines under which
\* two reads were made lie more than one minute apart, a call that finds
\* the window elapsed and has a key path has made no read under its new
\* deadline before its os.ReadFile and exactly one when it returns.
C6_OneReadPerWindow ==
    /\ \A a, b \in 1..Len(reads) : a < b => reads[b] > reads[a] + 1
    /\ \A p \in Procs :
          /\ pc[p] = "setKeyRead" => ReadsUnder(update) = {}
          /\ (pc[p] = "setKeyUnlock" /\ taken[p] # "noop" /\ keyPath[p] # "")
                => Cardinality(ReadsUnder(update)) = 1
          /\ (pc[p] = "setKeyUnlock" /\ taken[p] = "noop")
                => Cardinality(ReadsUnder(update)) <= 1

C6_Witness ==
    /\ Len(reads) = 2
    /\ \E p, q \in Procs :
          /\ pc[p] = "setKeyUnlock" /\ taken[p] = "noop" /\ keyPath[p] # ""
          /\ pc[q] = "setKeyLock"

\* C7: a setKey call that finds the refresh window not expired is a no-op:
\* from taking the lock to its return it changes neither the key nor the
\* deadline and reads no file, whatever its key path and whatever the file
\* holds by now.
C7_NoOpWithinWindow ==
    [][\A p \in Procs :
          /\ (pc[p] = "setKeyLock" /\ pc'[p] # pc[p])
                => UNCHANGED <<key, update, reads>>
          /\ (pc[p] = "setKeyCheck" /\ now <= update)
                => /\ UNCHANGED <<key, update, reads>>
                   /\ pc'[p] \in {"setKeyCheck", "setKeyUnlock"}
                   /\ pc'[p] = "setKeyUnlock" => taken'[p] = "noop"
          /\ (pc[p] = "setKeyUnlock" /\ taken[p] = "noop")
                => /\ UNCHANGED <<key, update, reads>>
                   /\ pc'[p] \in {"setKeyUnlock", "readCat"}
      ]_vars

C7_Witness ==
    \E p \in Procs :
        /\ pc[p] = "setKeyUnlock"
        /\ taken[p] = "noop"
        /\ keyPath[p] = ""
        /\ key # <<>>
        /\ file.ok
        /\ TrimSpace(file.data) # key

\* k is d without its leading and trailing white space.
IsTrimOf(k, d) ==
    \E a \in 0..Len(d), b \in 0..Len(d) :
        /\ a <= b
        /\ k = SubSeq(d, a + 1, b)
        /\ \A j \in 1..a : d[j] \in {" ", "\n", "\t"}
        /\ \A j \in (b + 1)..Len(d) : d[j] \in {" ", "\n", "\t"}
        /\ k # <<>> => /\ k[1] \notin {" ", "\n", "\t"}
                       /\ k[Len(k)] \notin {" ", "\n", "\t"}

\* C8: an allowed setKey call that has no key path or cannot read the file
\* leaves the key empty and returns; one that reads the file leaves its
\* trimmed content; a URL built while the key is empty has no api_key
\* parameter, and the key stays empty until a read succeeds.
C8_FailsOpenToKeyless ==
    /\ [](\A p \in Procs :
             (pc[p] = "setKeyUnlock" /\ taken[p] \in {"cleared", "readfail"})
                => key = <<>>)
    /\ [][\A p \in Procs :
             /\ (pc[p] = "setKeyUpdate" /\ pc'[p] # pc[p] /\ keyPath[p] = "")
                   => key' = <<>> /\ pc'[p] = "setKeyUnlock"
             /\ (pc[p] = "setKeyRead" /\ pc'[p] # pc[p])
                   => /\ pc'[p] = "setKeyUnlock"
                      /\ IF file.ok THEN IsTrimOf(key', file.data)
                         ELSE key' = <<>>
             /\ (pc[p] = "URL" /\ pc'[p] = "fetch" /\ key = <<>>)
                   => ~HasApiKey(uri'[p])
             /\ (pc[p] = "URL" /\ pc'[p] = "fetch" /\ key # <<>>)
                   => HasApiKey(uri'[p])
             /\ (key = <<>> /\ key' # <<>>)
                   => \E q \in Procs :
                         pc[q] = "setKeyRead" /\ file.ok /\ taken'[q] = "read"
         ]_vars

C8_Witness ==
    \E p \in Procs :
        /\ pc[p] = "fetch"
        /\ reads # <<>>
        /\ key = <<>>
        /\ ~file.ok
        /\ ~HasApiKey(uri[p])

(***************************************************************************)
(* Properties of the grumpy override.                                      *)
(***************************************************************************)
KeywordThenBlanks(line, blanks) ==
    \E kw \in {<<"n", "o">>, <<"g", "r", "u", "m", "p", "y">>} :
        /\ Len(kw) <= Len(line)
        /\ FoldEq(SubSeq(line, 1, Len(kw)), kw)
        /\ \A k \in (Len(kw) + 1)..Len(line) : line[k] \in blanks

\* c, without the white space around it, is "no" or "grumpy" in any case.
PaddedKeyword(c) == KeywordThenBlanks(TrimSpace(c), {})

\* c is "no" or "grumpy" in any case, followed by white space only.
TrailingPadded(c) == KeywordThenBlanks(c, {" ", "\n", "\t"})

\* The lines of c: the pieces between its line feeds.
LinesOf(c) ==
    LET feeds == {k \in 1..Len(c) : c[k] = "\n"}
        End(b) == LET after == {k \in feeds : k >= b}
                  IN  IF after = {} THEN Len(c) + 1
                      ELSE CHOOSE k \in after : \A j \in after : k <= j
    IN  {SubSeq(c, b, End(b) - 1) : b \in {1} \cup {k + 1 : k \in feeds}}

\* Some line of c is "no" or "grumpy" in any case, followed by blanks only.
HasKeywordLine(c) ==
    \E line \in LinesOf(c) : KeywordThenBlanks(line, {" ", "\t"})

\* C9 as stated: a category that is "no" or "grumpy", in any case, with
\* optional white space before or after it, makes readCat use the grumpy
\* image without an HTTP GET; every other category makes it issue the GET.
C9_PaddedKeywordSkipsGet ==
    \A p \in Procs :
        pc[p] = "result" =>
            /\ PaddedKeyword(category[p])
                  => ~out[p].get /\ out[p].sized = <<grumpyURL>>
            /\ ~PaddedKeyword(category[p]) => out[p].get

\* C9 as amended: a category that is "no" or "grumpy", in any case, with
\* optional white space after it (none before it), and more generally a
\* category one of whose lines has that form, makes readCat use the grumpy
\* image without an HTTP GET; every category with no such line makes it
\* issue the GET.
C9_KeywordLineSkipsGet ==
    \A p \in Procs :
        pc[p] = "result" =>
            /\ TrailingPadded(category[p]) => HasKeywordLine(category[p])
            /\ HasKeywordLine(category[p])
                  => ~out[p].get /\ out[p].sized = <<grumpyURL>>
            /\ ~HasKeywordLine(category[p]) => out[p].get

C9_Witness ==
    \E p \in Procs :
        /\ pc[p] = "result"
        /\ TrailingPadded(category[p])
        /\ Len(category[p]) > 2
        /\ ~out[p].get
        /\ out[p].sized = <<grumpyURL>>

\* C10 as stated: for a grumpy-triggering category readCat never returns an
\* error, so handle makes exactly one readCat call and posts the success
\* comment, never the fallback message.
C10_GrumpyAlwaysSucceeds ==
    \A p \in Procs :
        grumpyKeywords(category[p]) =>
            /\ \A k \in 1..Len(calls[p]) : calls[p][k] = "ok"
            /\ pc[p] = "done" =>
                  /\ calls[p] = <<"ok">>
                  /\ Len(posted[p]) = 1
                  /\ posted[p][1].body.text \notin FallbackMsgs

SizeErrors ==
    {Err("could not validate image size", 0, grumpyURL),
     Err("longcat is too long", 0, grumpyURL)}

\* C10 as amended: for a grumpy-triggering category readCat issues no HTTP
\* GET and hands the grumpy image to the size check; it returns the grumpy
\* embed, or the error of a size check that failed or found the image too
\* big, and no other error.  handle posts the grumpy embed after the first
\* attempt whose size check passes, and the fallback message only after
\* three such errors.
C10_GrumpySucceedsIfSizeOK ==
    \A p \in Procs :
        grumpyKeywords(category[p]) =>
            /\ pc[p] = "result" =>
                  /\ ~out[p].get
                  /\ out[p].sized = <<grumpyURL>>
                  /\ \/ out[p].err = Nil /\ out[p].out = Embed(grumpyURL)
                     \/ out[p].err \in SizeErrors /\ out[p].out = <<>>
            /\ (pc[p] = "done" /\ \E k \in 1..3 : FirstSuccessAt(p, k))
                  => posted[p][1].body.text = Embed(grumpyURL)
            /\ (pc[p] = "done" /\ posted[p][1].body.text \in FallbackMsgs)
                  => AllFailed(p)

C10_Witness ==
    \E p \in Procs :
        /\ pc[p] = "done"
        /\ grumpyKeywords(category[p])
        /\ calls[p] = <<"err", "ok">>
        /\ posted[p][1].body.text = Embed(grumpyURL)

(***************************************************************************)
(* Properties of readCat's validation chain.                               *)
(***************************************************************************)
\* The HTTP GET of invocation p's last readCat call was answered, and the
\* answer is a non-2xx status, an empty JSON array, or an array whose first
\* element has an empty URL.
BadResponse(p) ==
    LET resp == got[p].resp
    IN  /\ out[p].get
        /\ ~resp.err
        /\ \/ resp.sc \notin 200..299
           \/ resp.json /\ resp.cats = <<>>
           \/ resp.json /\ resp.cats # <<>> /\ resp.cats[1] = <<>>

\* C11: for an API response that is a non-2xx status, an empty JSON array,
\* or an array whose first element has an empty URL, readCat returns an
\* error and no text, and neither ImageTooBig nor Format was called in that
\* attempt; handle counts the attempt as failed.
C11_BadResponseStopsEarly ==
    \A p \in Procs :
        (pc[p] = "result" /\ BadResponse(p)) =>
            /\ out[p].err # Nil
            /\ out[p].out = <<>>
            /\ out[p].sized = <<>>
            /\ got[p].size = "none"
            /\ ~out[p].fmt
            /\ calls[p][Len(calls[p])] = "err"
            /\ got[p].resp.sc \notin 200..299
                  => /\ out[p].err.kind = "failing response from"
                     /\ out[p].err.sc = got[p].resp.sc

C11_Witness ==
    \E p \in Procs :
        /\ pc[p] = "result"
        /\ BadResponse(p)
        /\ got[p].resp.sc = 299
        /\ got[p].resp.cats = <<<<>>>>
        /\ out[p].err.kind = "no image url in response from"

\* The image URL the last readCat call of invocation p selected: the grumpy
\* image, or the URL of the first element of the response.
Selected(p) ==
    IF ~out[p].get THEN grumpyURL ELSE got[p].resp.cats[1]

\* The size check of invocation p's last readCat call reported true.
Oversized(p) == pc[p] = "result" /\ got[p].size = "toobig"

\* C12: when the size check reports true, readCat returns an error that
\* names the image URL and no text, without calling Format; handle counts
\* the attempt like any other failure, goes on to the next attempt without
\* posting, and after the third one posts the fallback comment and returns
\* the generic error.
C12_OversizedIsAFailure ==
    /\ [](\A p \in Procs :
             Oversized(p) =>
                 /\ out[p].err = Err("longcat is too long", 0, Selected(p))
                 /\ Selected(p) # <<>>
                 /\ out[p].sized = <<Selected(p)>>
                 /\ out[p].out = <<>>
                 /\ ~out[p].fmt
                 /\ Len(calls[p]) = i[p] + 1
                 /\ calls[p][Len(calls[p])] = "err")
    /\ [][\A p \in Procs :
             /\ (Oversized(p) /\ pc'[p] # pc[p])
                   => /\ i'[p] = i[p] + 1
                      /\ calls'[p] = calls[p]
                      /\ posted'[p] = <<>>
                      /\ ret'[p] = "none"
                      /\ pc'[p] = IF i[p] < 2 THEN "readCat" ELSE "fallback"
             /\ (pc[p] = "fallback" /\ pc'[p] # pc[p])
                   => /\ pc'[p] = "done"
                      /\ Len(posted'[p]) = 1
                      /\ posted'[p][1].body.text \in FallbackMsgs
                      /\ ret'[p] = "could not find a valid cat image"
         ]_vars

C12_Witness ==
    \E p \in Procs :
        /\ Oversized(p)
        /\ i[p] = 2
        /\ calls[p] = <<"err", "err", "err">>
        /\ out[p].get
        /\ out[p].err.arg = GoodImage

\* The last readCat call of invocation p selected an image: the grumpy one,
\* or the first element of a decoded 2xx response.
HasSelection(p) ==
    \/ ~out[p].get
    \/ /\ ~got[p].resp.err
       /\ got[p].resp.sc \in 200..299
       /\ got[p].resp.json
       /\ got[p].resp.cats # <<>>

\* The conditions under which C13 has readCat succeed.
Acceptable(p) ==
    /\ HasSelection(p)
    /\ Selected(p) # <<>>
    /\ got[p].size = "ok"
    /\ URLParseOK(Selected(p))

\* C13 as stated: readCat returns success if and only if the selected image
\* URL is non-empty, the size check completed without error and reported
\* not-too-big, and the URL parses; on success the returned string is the
\* image embed containing exactly that URL; Format is reached only after
\* the size check passed the same URL.
C13_SuccessEmbedsExactURL ==
    \A p \in Procs :
        pc[p] = "result" =>
            /\ (out[p].err = Nil) <=> Acceptable(p)
            /\ out[p].err = Nil
                  => out[p].out = EmbedOpen \o Selected(p) \o EmbedClose
            /\ out[p].err = Nil => out[p].fmt
            /\ out[p].fmt
                  => out[p].sized = <<Selected(p)>> /\ got[p].size = "ok"

\* C13 as amended: readCat returns success if and only if the selected
\* image URL is non-empty, the size check completed without error and
\* reported not-too-big, and the URL parses; on success the returned string
\* is the image embed of that URL as url.Parse and String write it back,
\* which is the URL itself when it needs no escaping and has %20 for each
\* of its spaces otherwise; Format is reached only after the size check
\* passed the same URL.
C13_SuccessEmbedsParsedURL ==
    \A p \in Procs :
        pc[p] = "result" =>
            /\ (out[p].err = Nil) <=> Acceptable(p)
            /\ out[p].err = Nil
                  => /\ out[p].out
                          = EmbedOpen \o URLString(Selected(p)) \o EmbedClose
                     /\ (\A k \in 1..Len(Selected(p)) : Selected(p)[k] # " ")
                           => out[p].out
                                = EmbedOpen \o Selected(p) \o EmbedClose
                     /\ \A k \in 1..Len(out[p].out) : out[p].out[k] # " "
                           \/ k <= Len(EmbedOpen)
            /\ out[p].err = Nil => out[p].fmt
            /\ out[p].fmt
                  => out[p].sized = <<Selected(p)>> /\ got[p].size = "ok"

C13_Witness ==
    \E p \in Procs :
        /\ pc[p] = "result"
        /\ out[p].err = Nil
        /\ Selected(p) = <<"/", "c", " ", "1">>
        /\ out[p].sized = <<Selected(p)>>
        /\ out[p].out
             = EmbedOpen \o <<"/", "c", "%", "2", "0", "1">> \o EmbedClose

(***************************************************************************)
(* Properties of handle's control flow.                                    *)
(***************************************************************************)
\* The positions of an invocation inside its setKey call, and after it.
InSetKey ==
    {"setKeyLock", "setKeyCheck", "setKeyUpdate", "setKeyRead",
     "setKeyUnlock"}

AfterSetKey == {"readCat", "URL", "fetch", "result", "fallback", "done"}

\* C14: every invocation of handle calls setKey first, whatever its
\* arguments; while that call runs no readCat call, no loop step and no
\* post of the invocation has happened; the call returns into the first
\* attempt, and from then on the invocation never enters setKey again, not
\* between attempts and not before the fallback post.
C14_RefreshOnceBeforeAttempts ==
    /\ [](\A p \in Procs :
             pc[p] \in InSetKey
                => /\ calls[p] = <<>>
                   /\ i[p] = 0
                   /\ posted[p] = <<>>
                   /\ out[p] = NoOut)
    /\ [][\A p \in Procs :
             /\ (pc[p] = "idle" /\ pc'[p] # "idle") => pc'[p] = "setKeyLock"
             /\ (pc'[p] = "setKeyLock" /\ pc[p] # "setKeyLock")
                   => pc[p] = "idle"
             /\ pc[p] \in InSetKey => pc'[p] \in InSetKey \cup {"readCat"}
             /\ (pc'[p] = "readCat" /\ pc[p] \in InSetKey)
                   => pc[p] = "setKeyUnlock" /\ lock.w = p /\ lock'.w = 0
             /\ pc[p] \in AfterSetKey => pc'[p] \in AfterSetKey \cup {"idle"}
         ]_vars

C14_Witness ==
    \E p \in Procs :
        /\ pc[p] = "fallback"
        /\ AllFailed(p)
        /\ i[p] = 3
        /\ Len(reads) = 1
        /\ update >= now

\* The moves of handle's state machine: Idle, the refresh, the attempts
\* (readCat, URL, fetch, result), the fallback post, Done.
HandleMoves ==
    {<<"idle", "setKeyLock">>,
     <<"setKeyLock", "setKeyCheck">>,
     <<"setKeyCheck", "setKeyUnlock">>,
     <<"setKeyCheck", "setKeyUpdate">>,
     <<"setKeyUpdate", "setKeyUnlock">>,
     <<"setKeyUpdate", "setKeyRead">>,
     <<"setKeyRead", "setKeyUnlock">>,
     <<"setKeyUnlock", "readCat">>,
     <<"readCat", "URL">>,
     <<"URL", "fetch">>,
     <<"fetch", "result">>,
     <<"result", "readCat">>,
     <<"result", "done">>,
     <<"result", "fallback">>,
     <<"fallback", "done">>,
     <<"done", "idle">>}

\* C15: every invocation of handle follows the state machine Idle ->
\* refresh -> attempt 1..3 -> (success -> post -> Done) or (3 failures ->
\* fallback post -> Done with error): it is in an attempt only with its
\* counter in 0..2, reaches Done from a successful attempt by one post or
\* from the fallback position, which it enters only after 3 failed
\* attempts, by one fallback post and with the error; and when its steps
\* are scheduled and its calls return, an invocation that has started
\* reaches Done.
C15_HandleStateMachine ==
    /\ [](\A p \in Procs :
             /\ pc[p] \in {"URL", "fetch", "result"}
                   => i[p] \in 0..2 /\ posted[p] = <<>>
             /\ pc[p] = "fallback"
                   => i[p] = 3 /\ AllFailed(p) /\ posted[p] = <<>>
             /\ pc[p] = "done"
                   => /\ Len(posted[p]) = 1
                      /\ \/ /\ \E k \in 1..3 : FirstSuccessAt(p, k)
                            /\ posted[p][1].body.text \notin FallbackMsgs
                            /\ ret[p] # "could not find a valid cat image"
                         \/ /\ AllFailed(p)
                            /\ posted[p][1].body.text \in FallbackMsgs
                            /\ ret[p] = "could not find a valid cat image")
    /\ [][\A p \in Procs :
             /\ pc'[p] # pc[p] => <<pc[p], pc'[p]>> \in HandleMoves
             /\ (pc[p] = "result" /\ pc'[p] = "done")
                   => out[p].err = Nil /\ Len(posted'[p]) = 1
             /\ (pc[p] = "result" /\ pc'[p] \in {"readCat", "fallback"})
                   => out[p].err # Nil /\ i'[p] = i[p] + 1
         ]_vars
    /\ \A p \in Procs : (pc[p] # "idle") ~> (pc[p] = "done")

C15_Witness ==
    \E p, q \in Procs :
        /\ pc[p] = "done" /\ AllFailed(p) /\ ret[p] = NoCatError
        /\ pc[q] = "done" /\ FirstSuccessAt(q, 2) /\ ret[q] = "nil"

(***************************************************************************)
(* Properties of the credential cache lock.                                *)
(***************************************************************************)
\* The invocations inside setKey's critical section, and inside URL's.
Writers ==
    {p \in Procs :
        pc[p] \in {"setKeyCheck", "setKeyUpdate", "setKeyRead",
                   "setKeyUnlock"}}

Readers == {p \in Procs : pc[p] = "URL"}

\* C16: under any interleaving at most one invocation is inside setKey's
\* critical section and none is inside URL's at the same time; several may
\* be inside URL's together; the key and the deadline do not change while
\* an invocation is inside URL's, and the URL it builds carries the key as
\* it stands then, which no setKey call is in the middle of replacing.
C16_LockExcludes ==
    /\ [](/\ Cardinality(Writers) <= 1
          /\ Writers # {} => Readers = {}
          /\ Writers = {lock.w} \ {0}
          /\ Readers = lock.r)
    /\ [][/\ Readers # {} => key' = key /\ update' = update
          /\ \A p \in Procs :
                (pc[p] = "URL" /\ pc'[p] = "fetch")
                   => /\ Writers = {}
                      /\ uri'[p] = URL(category[p], movieCat[p], key)
         ]_vars

C16_Witness ==
    /\ Readers = {1, 2}
    /\ lock.r = {1, 2}
    /\ key # <<>>

(***************************************************************************)
(* What each step may change.                                              *)
(***************************************************************************)
\* The state of invocation p that is local to it.
Locals(p) ==
    <<category[p], movieCat[p], i[p], uri[p], out[p], got[p], calls[p],
      posted[p], ret[p]>>

\* C17: the key and the refresh deadline change only in a step of a setKey
\* call that holds the lock; the steps of URL, of readCat and of handle's
\* loop and posts leave them as they are; a step of one invocation leaves
\* the attempt counter, the retrieved result and the outcome of every other
\* invocation as they are, and an invocation starts with none of them set,
\* whatever earlier invocations did.
C17_CacheOnlyBySetKey ==
    /\ [](\A p \in Procs :
             pc[p] = "idle"
                => /\ i[p] = 0 /\ uri[p] = <<>> /\ out[p] = NoOut
                   /\ calls[p] = <<>> /\ posted[p] = <<>> /\ ret[p] = "none")
    /\ [][/\ (key' # key \/ update' # update)
                => \E p \in Procs :
                      /\ pc[p] \in {"setKeyUpdate", "setKeyRead"}
                      /\ pc'[p] # pc[p]
                      /\ lock.w = p
          /\ \A p \in Procs :
                (pc[p] \in AfterSetKey /\ pc'[p] # pc[p])
                   => key' = key /\ update' = update /\ reads' = reads
          /\ \A p, q \in Procs :
                (p # q /\ pc'[p] # pc[p]) => Locals(q)' = Locals(q)
          /\ \A p \in Procs :
                (pc[p] = "idle" /\ pc'[p] # pc[p])
                   => /\ i'[p] = 0 /\ uri'[p] = <<>> /\ out'[p] = NoOut
                      /\ calls'[p] = <<>> /\ posted'[p] = <<>>
                      /\ ret'[p] = "none"
         ]_vars

C17_Witness ==
    \E p, q \in Procs :
        /\ pc[p] = "result" /\ i[p] = 2 /\ out[p].err = Nil
        /\ pc[q] = "fallback" /\ i[q] = 3
        /\ key # <<>>
        /\ Len(reads) = 2

(***************************************************************************)
(* Properties of the success path.                                         *)
(***************************************************************************)
\* C18: after a successful readCat call handle makes one CreateComment call
\* with the retrieved text and returns what that call returned, nil or the
\* post's error; whatever the answer it makes no further readCat call and
\* posts no fallback message.
C18_PostResultIsReturned ==
    /\ [](\A p \in Procs :
             (pc[p] = "done" /\ calls[p] # <<>>
                /\ calls[p][Len(calls[p])] = "ok")
                => /\ Len(posted[p]) = 1
                   /\ posted[p][1].body.text = out[p].out
                   /\ posted[p][1].body.text \notin FallbackMsgs
                   /\ ret[p] = posted[p][1].answer
                   /\ ret[p] \in {"nil", "create comment failed"})
    /\ [][\A p \in Procs :
             /\ (pc[p] = "result" /\ out[p].err = Nil /\ pc'[p] # pc[p])
                   => /\ pc'[p] = "done"
                      /\ i'[p] = i[p]
                      /\ calls'[p] = calls[p]
                      /\ Len(posted'[p]) = 1
                      /\ ret'[p] = posted'[p][1].answer
             /\ (pc[p] = "done" /\ pc'[p] = "done")
                   => /\ posted'[p] = posted[p]
                      /\ calls'[p] = calls[p]
                      /\ ret'[p] = ret[p]
         ]_vars

C18_Witness ==
    \E p \in Procs :
        /\ pc[p] = "done"
        /\ calls[p] = <<"err", "ok">>
        /\ Len(posted[p]) = 1
        /\ posted[p][1].answer = PostError
        /\ ret[p] = PostError

(***************************************************************************)
(* Properties of the refresh deadline.                                     *)
(***************************************************************************)
\* C19: an allowed setKey call sets the deadline to one minute ahead before
\* it looks at the key path or reads the file, and the read leaves the
\* deadline where it is, so a failed read or an empty path uses up the
\* window too: while the window has not expired and no allowed call is
\* under way, the file is not read and the key and the deadline stay as
\* they are, whatever the file holds and whatever key path a call brings;
\* the deadline never moves backwards.
C19_FailedRefreshConsumesWindow ==
    /\ [](\A p \in Procs :
             pc[p] = "setKeyRead" => update > 0 /\ ReadsUnder(update) = {})
    /\ [][/\ update' >= update
          /\ \A p \in Procs :
                /\ (pc[p] = "setKeyUpdate" /\ pc'[p] # pc[p])
                      => /\ update' = now + 1
                         /\ update' > update
                         /\ reads' = reads
                /\ (pc[p] = "setKeyRead" /\ pc'[p] # pc[p])
                      => /\ update' = update
                         /\ reads' = Append(reads, update)
                         /\ ~file.ok => key' = <<>>
          /\ (now <= update
                /\ \A p \in Procs :
                      pc[p] \notin {"setKeyUpdate", "setKeyRead"})
                => reads' = reads /\ key' = key /\ update' = update
         ]_vars

C19_Witness ==
    \E p \in Procs :
        /\ pc[p] = "setKeyUnlock"
        /\ taken[p] = "noop"
        /\ keyPath[p] # ""
        /\ file.ok
        /\ key = <<>>
        /\ now <= update
        /\ reads # <<>>
        /\ reads[Len(reads)] = update

(***************************************************************************)
(* Progress under the credential cache lock.                               *)
(***************************************************************************)
\* The four ways setKey returns.
ExitPaths == {"noop", "cleared", "read", "readfail"}

\* C20: setKey returns by one of its four paths (window not expired, empty
\* path, successful read, failed read) and on each of them gives the lock
\* back; URL gives its read lock back when it returns; no invocation holds
\* the lock outside setKey and URL.  Under fair scheduling an invocation
\* that waits for the lock gets through its refresh, and an invocation
\* that starts an attempt gets its URL built.
C20_LockAlwaysReleased ==
    /\ [](\A p \in Procs :
             /\ lock.w = p => pc[p] \in InSetKey \ {"setKeyLock"}
             /\ p \in lock.r => pc[p] = "URL"
             /\ pc[p] = "setKeyUnlock" => taken[p] \in ExitPaths)
    /\ [][\A p \in Procs :
             /\ (pc[p] \in InSetKey /\ pc'[p] \notin InSetKey)
                   => /\ pc[p] = "setKeyUnlock"
                      /\ lock.w = p
                      /\ lock'.w = 0
             /\ (pc[p] = "URL" /\ pc'[p] # pc[p])
                   => p \in lock.r /\ p \notin lock'.r
         ]_vars
    /\ \A p \in Procs : (pc[p] = "setKeyLock") ~> (pc[p] = "readCat")
    /\ \A p \in Procs : (pc[p] = "readCat" /\ i[p] < 3) ~> (pc[p] = "fetch")

C20_Witness ==
    \E p, q \in Procs :
        /\ pc[p] = "fetch"
        /\ pc[q] = "setKeyLock"
        /\ lock = [w |-> 0, r |-> {}]
        /\ reads # <<>>
        /\ ~file.ok
        /\ update >= now
=============================================================================
